---- MODULE Spec2Model ----
(***************************************************************************)
(* A model of the Fit function adaptors `by`, `construct` and `indirect`.  *)
(*                                                                         *)
(* A call of an adaptor is modelled as a small state machine: the call is  *)
(* resolved (its SFINAE guard and the well-formedness of its body are      *)
(* decided), then its body runs one evaluation at a time, so that the      *)
(* order of the evaluations and the values that flow through them can be   *)
(* observed.                                                               *)
(***************************************************************************)
EXTENDS Integers, Sequences, FiniteSets

\* ------------------------------------------------------------------ bounds

\* Longest argument list of a call of by(p, f) / by(p).
MaxArgs == 2
\* Argument payloads range over 0..MaxVal.
MaxVal == 2
\* Payloads of the arguments of construct range over 0..MaxCtorVal.
MaxCtorVal == 1
\* Longest argument list (and initializer list) of a call of construct.
MaxCtorArgs == 2
\* Number of calls made through indirect adaptors in one run.
MaxCalls == 3

VARIABLES
    \* by(p, f)(xs...) and by(p)(xs...)
    bpc,      \* "idle" | "eval" | "veval" | "done" | "rejected" | "ill_formed"
    bcfg,     \* the build's FIT_NO_ORDERED_BRACE_INIT
    bp,       \* the projection of the adaptor
    bf,       \* the function of the adaptor ("void": by_adaptor<Projection, void>)
    bxs,      \* the arguments of the call
    bidx,     \* number of projections evaluated so far
    bvals,    \* the projected values, by argument position
    blog,     \* the invocations made so far, in order
    bret,     \* what the call returned
    \* construct<T>()(xs...) and construct<Template>()(xs...)
    cpc,      \* "idle" | "lit" | "new" | "hold" | "done" | "rejected" | "ill_formed"
    cvariant, \* "class", or the template overload: "construct" | "construct_forward" | "construct_basic"
    cT,       \* the type constructed (for a template: the instantiation deduced)
    cxs,      \* the arguments of the call
    cbuf,     \* the object living in the aligned_storage buffer
    cret,     \* the object returned
    \* indirect(ptr)(xs...)
    heap,     \* the callables pointed to: the value member of each
    hist,     \* per callable, the arguments of the calls made on it through indirect
    iad,      \* the live indirect adaptor: the pointer it holds
    icall,    \* the last call made through the adaptor
    iret,     \* what that call returned
    ncalls    \* number of calls made so far

byvars == <<bpc, bcfg, bp, bf, bxs, bidx, bvals, blog, bret>>

cvars == <<cpc, cvariant, cT, cxs, cbuf, cret>>

ivars == <<heap, hist, iad, icall, iret, ncalls>>

vars == <<bpc, bcfg, bp, bf, bxs, bidx, bvals, blog, bret,
          cpc, cvariant, cT, cxs, cbuf, cret,
          heap, hist, iad, icall, iret, ncalls>>

\* ------------------------------------------------------------------ values

Payload == 0..MaxVal

\* The values passed to by: ints, and the struct foo of the documentation's
\* example (foo(int x_) : x(x_)).
IntVal(n) == [t |-> "int", v |-> n]
FooVal(n) == [t |-> "foo", v |-> n]
TupleVal(s) == [t |-> "tuple", v |-> s]
VoidVal == [t |-> "void", v |-> 0]
NoVal == [t |-> "none", v |-> 0]

ByArg == {IntVal(n) : n \in Payload} \cup {FooVal(n) : n \in Payload}

SeqsUpTo(S, n) == UNION {[1..k -> S] : k \in 0..n}


\* ---------------------------------------------------- the callables passed in

\* The projections handed to by: the identity, the member pointer &foo::x of
\* the documentation's example, and an increment on ints.
Projections == {"identity", "member_x", "incr"}

\* The functions handed to by: _ + _ of the documentation's example and a
\* variadic function that packs its arguments into a tuple.
Functions == {"plus", "pack"}

\* Whether p(x) is a valid expression.
PCallable(p, x) ==
    CASE p = "identity" -> TRUE
      [] p = "member_x" -> x.t = "foo"
      [] p = "incr"     -> x.t = "int"

\* The value of p(x).
PApply(p, x) ==
    CASE p = "identity" -> x
      [] p = "member_x" -> IntVal(x.v)
      [] p = "incr"     -> IntVal(x.v + 1)

\* Whether f(vs...) is a valid expression.
FCallable(f, vs) ==
    CASE f = "plus" -> Len(vs) = 2 /\ vs[1].t = "int" /\ vs[2].t = "int"
      [] f = "pack" -> TRUE

\* The value of f(vs...).
FApply(f, vs) ==
    CASE f = "plus" -> IntVal(vs[1].v + vs[2].v)
      [] f = "pack" -> TupleVal(vs)

\* ------------------------------------------------------------------- by

PEvent(i, x, r) == [ev |-> "p", i |-> i, x |-> x, r |-> r]
FEvent(vs, r) == [ev |-> "f", i |-> 0, x |-> TupleVal(vs), r |-> r]

\* project_eval<T, Projection>::operator(): p(FIT_FORWARD(T)(x)).
project_eval_unprojected(p, x) == x
project_eval(p, x) == PApply(p, x)

\* project_void_eval<T, Projection>::operator(): p(x), void_() -- the
\* projection's result is dropped by the comma operator.
project_void_eval(p, x) == VoidVal

\* The swallow{ (p(xs), 0)... } initializer: each element is the 0 of the
\* comma expression.
swallow_element(p, x) == IntVal(0)

\* The k-th evaluation (k = 1..n) made by apply_eval(f, es...) is es[k]:
\* apply_eval evaluates its evals left to right, then calls f on the results.
apply_eval_order(n, k) == k

\* The k-th initializer clause evaluated of the braced list
\* swallow{ (p(xs), 0)... } is the k-th of the pack expansion.
brace_init_order_reversed(n, k) == n + 1 - k
brace_init_order_first(n, k) == 1
brace_init_order(n, k) == k

\* by_adaptor<Projection, F>::operator()'s FIT_SFINAE_RESULT: F is callable
\* with the results of the projection on each argument.
by_sfinae_unconstrained(p, f, xs) == TRUE
by_sfinae_result(p, f, xs) ==
    /\ \A i \in 1..Len(xs) : PCallable(p, xs[i])
    /\ FCallable(f, [i \in 1..Len(xs) |-> PApply(p, xs[i])])

\* by_adaptor<Projection, void>::operator()'s constraint: the projection is
\* callable on each argument.
by_void_constraint(p, xs) == \A i \in 1..Len(xs) : PCallable(p, xs[i])

\* Whether the expressions in the body of the call operator are valid: the
\* projection on each argument, and (by_eval) f on the projected values. A
\* body that is not valid is a hard error of the build, not a rejected overload.
ByVoidBodyValid(p, xs) == \A i \in 1..Len(xs) : PCallable(p, xs[i])
ByBodyValid(p, f, xs) ==
    /\ ByVoidBodyValid(p, xs)
    /\ FCallable(f, [i \in 1..Len(xs) |-> project_eval(p, xs[i])])

ByIdle ==
    /\ bpc = "idle" /\ bp = "identity" /\ bf = "void" /\ bxs = <<>>
    /\ bidx = 0 /\ bvals = <<>> /\ blog = <<>> /\ bret = NoVal

ByInit == bcfg \in BOOLEAN /\ ByIdle

\* by(p, f)(xs...): overload resolution of by_adaptor::operator().
ByCall(p, f, xs) ==
    /\ bpc = "idle" /\ cpc = "idle"
    /\ bp' = p /\ bf' = f /\ bxs' = xs
    /\ bidx' = 0 /\ blog' = <<>> /\ bret' = NoVal
    /\ bvals' = [i \in 1..Len(xs) |-> NoVal]
    /\ bpc' = IF ~by_sfinae_result(p, f, xs) THEN "rejected"
              ELSE IF ~ByBodyValid(p, f, xs) THEN "ill_formed"
              ELSE "eval"
    /\ UNCHANGED bcfg /\ UNCHANGED cvars /\ UNCHANGED ivars

\* by_eval: apply_eval evaluates the next project_eval.
ByProject ==
    /\ bpc = "eval" /\ bidx < Len(bxs)
    /\ LET i == apply_eval_order(Len(bxs), bidx + 1)
           x == bxs[i]
       IN  /\ bvals' = [bvals EXCEPT ![i] = project_eval(bp, x)]
           /\ blog' = Append(blog, PEvent(i, x, PApply(bp, x)))
           /\ bidx' = bidx + 1
    /\ UNCHANGED <<bpc, bcfg, bp, bf, bxs, bret>> /\ UNCHANGED cvars /\ UNCHANGED ivars

\* by_eval: apply_eval calls f on the projected values and returns its result.
ByInvoke ==
    /\ bpc = "eval" /\ bidx = Len(bxs)
    /\ FCallable(bf, bvals)
    /\ bret' = FApply(bf, bvals)
    /\ blog' = Append(blog, FEvent(bvals, FApply(bf, bvals)))
    /\ bpc' = "done"
    /\ UNCHANGED <<bcfg, bp, bf, bxs, bidx, bvals>> /\ UNCHANGED cvars /\ UNCHANGED ivars

\* by(p)(xs...): overload resolution of by_adaptor<Projection, void>::operator().
ByVoidCall(p, xs) ==
    /\ bpc = "idle" /\ cpc = "idle"
    /\ bp' = p /\ bf' = "void" /\ bxs' = xs
    /\ bidx' = 0 /\ blog' = <<>> /\ bret' = NoVal
    /\ bvals' = [i \in 1..Len(xs) |-> NoVal]
    /\ bpc' = IF ~by_void_constraint(p, xs) THEN "rejected"
              ELSE IF ~ByVoidBodyValid(p, xs) THEN "ill_formed"
              ELSE "veval"
    /\ UNCHANGED bcfg /\ UNCHANGED cvars /\ UNCHANGED ivars

\* The body of by_adaptor<Projection, void>::operator(): the next projection,
\* through by_void_eval under FIT_NO_ORDERED_BRACE_INIT and through the
\* braced swallow initializer otherwise.
ByVoidProject ==
    /\ bpc = "veval" /\ bidx < Len(bxs)
    /\ LET n == Len(bxs)
           i == IF bcfg THEN apply_eval_order(n, bidx + 1)
                        ELSE brace_init_order(n, bidx + 1)
           x == bxs[i]
       IN  /\ bvals' = [bvals EXCEPT ![i] =
                           IF bcfg THEN project_void_eval(bp, x)
                                   ELSE swallow_element(bp, x)]
           /\ blog' = Append(blog, PEvent(i, x, PApply(bp, x)))
           /\ bidx' = bidx + 1
    /\ UNCHANGED <<bpc, bcfg, bp, bf, bxs, bret>> /\ UNCHANGED cvars /\ UNCHANGED ivars

\* The end of by_adaptor<Projection, void>::operator(): FIT_BY_VOID_RETURN.
ByVoidReturn ==
    /\ bpc = "veval" /\ bidx = Len(bxs)
    /\ bret' = VoidVal
    /\ bpc' = "done"
    /\ UNCHANGED <<bcfg, bp, bf, bxs, bidx, bvals, blog>> /\ UNCHANGED cvars /\ UNCHANGED ivars

\* The full expression of the call ends; the next call may start.
ByReset ==
    /\ bpc \in {"done", "rejected", "ill_formed"}
    /\ bpc' = "idle" /\ bp' = "identity" /\ bf' = "void" /\ bxs' = <<>>
    /\ bidx' = 0 /\ bvals' = <<>> /\ blog' = <<>> /\ bret' = NoVal
    /\ UNCHANGED bcfg /\ UNCHANGED cvars /\ UNCHANGED ivars

\* One call expression is evaluated at a time.
Idle == bpc = "idle" /\ cpc = "idle"

\* Some call by(p, f)(xs...) is made.
ByCallAny ==
    /\ Idle
    /\ \E p \in Projections, f \in Functions, xs \in SeqsUpTo(ByArg, MaxArgs) :
          ByCall(p, f, xs)

\* Some call by(p)(xs...) is made.
ByVoidCallAny ==
    /\ Idle
    /\ \E p \in Projections, xs \in SeqsUpTo(ByArg, MaxArgs) : ByVoidCall(p, xs)

\* ------------------------------------------------------------ construct: types

\* The argument types of the calls of construct: a literal copyable type, a
\* non-literal copyable type, a non-literal move-only type, and
\* std::initializer_list<int>.
Bases == {"int", "str", "uptr"}
Cats == {"lvalue", "rvalue"}

\* An argument expression: its type's base and constness, its value category
\* and its payload.
CArg == [base : Bases, v : 0..MaxCtorVal, cat : Cats, const : BOOLEAN]

\* An initializer-list argument std::initializer_list<int>: a non-const
\* rvalue, a non-const lvalue or a const lvalue.
ILArg ==
    {[base |-> "il", v |-> s, cat |-> q[1], const |-> q[2]] :
        s \in SeqsUpTo(0..MaxCtorVal, MaxCtorArgs),
        q \in {<<"rvalue", FALSE>>, <<"lvalue", FALSE>>, <<"lvalue", TRUE>>}}

\* The class types T of construct<T>():
\*   point   literal,     copyable,   point() and point(int, int)
\*   token   literal,     move-only,  token(int)
\*   vector  non-literal, copyable,   vector(), vector(int, int), vector(initializer_list<int>)
\*   unique  non-literal, move-only,  unique(), unique(int)
ClassNames == {"point", "token", "vector", "unique"}
ClassType(name) == [name |-> name, params |-> <<>>]
NoType == [name |-> "none", params |-> <<>>]
NoObj == [type |-> NoType, init |-> <<>>]

\* A template parameter of an instantiation Template<Ts...>.
ParamIsLiteral(q) == q.ref # "none" \/ q.base = "int"
ParamCopyable(q) == q.ref # "none" \/ q.base # "uptr"
ParamMovable(q) == q.ref # "none" \/ q.base # "uptr" \/ ~q.const

\* std::is_literal_type<T>.
IsLiteral(T) ==
    CASE T.name \in {"point", "token"} -> TRUE
      [] T.name \in {"vector", "unique"} -> FALSE
      [] T.name = "tuple" -> \A i \in 1..Len(T.params) : ParamIsLiteral(T.params[i])
      [] OTHER -> FALSE

\* T has a usable copy constructor.
CopyConstructible(T) ==
    CASE T.name \in {"point", "vector"} -> TRUE
      [] T.name \in {"token", "unique"} -> FALSE
      [] T.name = "tuple" -> \A i \in 1..Len(T.params) : ParamCopyable(T.params[i])
      [] OTHER -> FALSE

\* T can be initialised from an rvalue of T: by its move constructor, or by
\* its copy constructor.
MoveConstructible(T) ==
    CASE T.name \in ClassNames -> TRUE
      [] T.name = "tuple" -> \A i \in 1..Len(T.params) : ParamMovable(T.params[i])
      [] OTHER -> FALSE

\* A template parameter q can be initialised from the argument x.
ParamConstructible(q, x) ==
    /\ q.base = x.base
    /\ \/ q.ref = "lref"
       \/ q.base # "uptr"
       \/ (x.cat = "rvalue" /\ ~x.const)

\* std::is_constructible<T, Ts...>: T(xs...) is a valid expression.
Constructible(T, xs) ==
    LET ints == \A i \in 1..Len(xs) : xs[i].base = "int"
        il   == Len(xs) = 1 /\ xs[1].base = "il"
    IN  CASE T.name = "point"  -> Len(xs) \in {0, 2} /\ ints
          [] T.name = "token"  -> Len(xs) = 1 /\ ints
          [] T.name = "vector" -> (Len(xs) \in {0, 2} /\ ints) \/ il
          [] T.name = "unique" -> Len(xs) \in {0, 1} /\ ints
          [] T.name = "tuple"  ->
                /\ Len(xs) = Len(T.params)
                /\ \A i \in 1..Len(xs) : ParamConstructible(T.params[i], xs[i])
          [] OTHER -> FALSE

\* The object T(xs...): determined by its type and by the values, constness
\* and value categories of the expressions it is initialised from.
Ctor(T, xs) == [type |-> T, init |-> xs]

\* The type a forwarding reference Ts&& deduces for an argument: X& for an
\* lvalue, X for an rvalue (cv-qualifiers kept).
Deduce(x) ==
    [base |-> x.base, const |-> x.const,
     ref |-> IF x.cat = "lvalue" THEN "lref" ELSE "none"]

\* Inside a function the named parameter xs is an lvalue expression.
NamedParam(x) == [x EXCEPT !.cat = "lvalue"]

\* FIT_FORWARD(Ts)(xs): static_cast<Ts&&>(xs), an lvalue when Ts is an lvalue
\* reference and an rvalue otherwise.
fit_forward(Ts, x) ==
    [x EXCEPT !.cat = IF Ts.ref = "lref" THEN "lvalue" ELSE "rvalue"]

\* The pack FIT_FORWARD(Ts)(xs)... of an operator()(Ts&&... xs) called with xs.
ForwardPack(xs) ==
    [i \in 1..Len(xs) |-> fit_forward(Deduce(xs[i]), NamedParam(xs[i]))]

\* The argument of the three initializer_list overloads as handed to T's
\* constructor: static_cast<std::initializer_list<X>&&>(x) in the && overload,
\* the lvalue x in the & and const & overloads.
ForwardIL(x) ==
    IF x.cat = "rvalue" /\ ~x.const
    THEN [NamedParam(x) EXCEPT !.cat = "rvalue"]
    ELSE NamedParam(x)

\* detail::decay_mf, detail::construct_id and detail::remove_rvalue_reference:
\* the mappings D of construct, construct_forward and construct_basic.
decay_mf(Ts) == [base |-> Ts.base, const |-> FALSE, ref |-> "none"]
construct_id(Ts) == Ts
remove_rvalue_reference(Ts) == IF Ts.ref = "rref" THEN [Ts EXCEPT !.ref = "none"] ELSE Ts

TemplateVariants == {"construct", "construct_forward", "construct_basic"}

D(variant, Ts) ==
    CASE variant = "construct"         -> decay_mf(Ts)
      [] variant = "construct_forward" -> construct_id(Ts)
      [] variant = "construct_basic"   -> remove_rvalue_reference(Ts)

\* construct_template_f::operator()'s Result: FIT_JOIN(Template, typename D<Ts>::type...).
TemplateResult(variant, xs) ==
    [name |-> "tuple", params |-> [i \in 1..Len(xs) |-> D(variant, Deduce(xs[i]))]]

\* FIT_ENABLE_IF_CONSTRUCTIBLE(T, Ts...) of construct_f::operator() and of
\* construct_template_f::operator().
construct_f_enabled(T, xs) == Constructible(T, xs)

\* Whether the body of construct_f<T>::operator() compiles. The literal
\* specialisation returns the prvalue T(xs...); the primary template returns
\* h.data(), an lvalue T&, which copy-initialises the result.
construct_f_body_ok(T) ==
    IF IsLiteral(T) THEN MoveConstructible(T) ELSE CopyConstructible(T)


\* ---------------------------------------------------------- construct: calls

\* The arguments T's constructor receives from construct_f<T>::operator().
CtorArgs(xs) ==
    IF Len(xs) = 1 /\ xs[1].base = "il" THEN <<ForwardIL(xs[1])>> ELSE ForwardPack(xs)

\* The arguments construct_f<Result>::operator() receives from
\* construct_template_f::operator(): FIT_FORWARD(Ts)(xs)....
InnerArgs(variant, xs) == IF variant = "class" THEN xs ELSE ForwardPack(xs)

CIdle ==
    /\ cpc = "idle" /\ cvariant = "class" /\ cT = NoType /\ cxs = <<>>
    /\ cbuf = NoObj /\ cret = NoObj

\* Overload resolution and instantiation of the call operator for the call
\* variant<T>()(xs...): rejected when the constraint fails, a hard error when
\* the body selected does not compile, otherwise the body of the literal
\* specialisation or of the primary template runs.
ConstructResolve(variant, T, xs) ==
    /\ cpc = "idle" /\ bpc = "idle"
    /\ cvariant' = variant /\ cT' = T /\ cxs' = xs
    /\ cbuf' = NoObj /\ cret' = NoObj
    /\ cpc' = IF ~construct_f_enabled(T, xs) THEN "rejected"
              ELSE IF ~(Constructible(T, xs) /\ construct_f_body_ok(T)) THEN "ill_formed"
              ELSE IF IsLiteral(T) THEN "lit"
              ELSE "new"
    /\ UNCHANGED byvars /\ UNCHANGED ivars

\* construct<T>()(xs...)
ConstructCall(name, xs) == ConstructResolve("class", ClassType(name), xs)

\* construct<T>()(il) through one of the std::initializer_list overloads.
ConstructCallIL(name, il) == ConstructResolve("class", ClassType(name), <<il>>)

\* construct<Template>()(xs...), construct_forward<Template>()(xs...),
\* construct_basic<Template>()(xs...)
ConstructTemplateCall(variant, xs) ==
    ConstructResolve(variant, TemplateResult(variant, xs), xs)

\* The literal specialisation: return T(FIT_FORWARD(Ts)(xs)...).
ConstructLiteralReturn ==
    /\ cpc = "lit"
    /\ cret' = Ctor(cT, CtorArgs(InnerArgs(cvariant, cxs)))
    /\ cpc' = "done"
    /\ UNCHANGED <<cvariant, cT, cxs, cbuf>> /\ UNCHANGED byvars /\ UNCHANGED ivars

\* The primary template: storage buffer{}; new(&buffer) T(FIT_FORWARD(Ts)(xs)...).
ConstructPlacementNew ==
    /\ cpc = "new"
    /\ cbuf' = Ctor(cT, CtorArgs(InnerArgs(cvariant, cxs)))
    /\ cpc' = "hold"
    /\ UNCHANGED <<cvariant, cT, cxs, cret>> /\ UNCHANGED byvars /\ UNCHANGED ivars

\* The primary template: storage_holder h(&buffer); return h.data(); -- the
\* result is copied from the buffered object, which ~storage_holder destroys.
ConstructReturn ==
    /\ cpc = "hold"
    /\ cret' = cbuf
    /\ cbuf' = NoObj
    /\ cpc' = "done"
    /\ UNCHANGED <<cvariant, cT, cxs>> /\ UNCHANGED byvars /\ UNCHANGED ivars

ConstructReset ==
    /\ cpc \in {"done", "rejected", "ill_formed"}
    /\ cpc' = "idle" /\ cvariant' = "class" /\ cT' = NoType /\ cxs' = <<>>
    /\ cbuf' = NoObj /\ cret' = NoObj
    /\ UNCHANGED byvars /\ UNCHANGED ivars

\* Some call construct<T>()(xs...) is made.
ConstructCallAny ==
    /\ Idle
    /\ \E name \in ClassNames, xs \in SeqsUpTo(CArg, MaxCtorArgs) :
          ConstructCall(name, xs)

\* Some call construct<T>()(il) with an initializer list is made.
ConstructCallILAny ==
    /\ Idle
    /\ \E name \in ClassNames, il \in ILArg : ConstructCallIL(name, il)

\* Some call of construct, construct_forward or construct_basic on a class
\* template is made.
ConstructTemplateCallAny ==
    /\ Idle
    /\ \E variant \in TemplateVariants, xs \in SeqsUpTo(CArg, MaxCtorArgs) :
          ConstructTemplateCall(variant, xs)

\* ---------------------------------------------------------------- indirect

\* The callables of the test: binary_class f (returns the sum of its two
\* arguments) and mutable_function mf on the stack, reached through raw
\* pointers; a mutable_function owned by a shared_ptr; a binary_class and a
\* mutable_function created for, and owned by, a unique_ptr moved into the
\* adaptor. "copy" is the storage a by-value adaptor would call instead.
Callables == {"f", "mf", "shared_mf", "unique_f", "unique_mf", "copy"}
Binaries == {"f", "unique_f"}
Mutables == {"mf", "shared_mf", "unique_mf"}
Pointees == Binaries \cup Mutables

PointerKind(o) ==
    CASE o \in {"f", "mf"} -> "raw"
      [] o = "shared_mf" -> "shared_ptr"
      [] o \in {"unique_f", "unique_mf"} -> "unique_ptr"

\* The arguments of the test's calls.
IndirectArgs == {1, 2, 15}

NoCall == [target |-> "none", args |-> <<>>]

\* mutable_function::mutable_function() : value(0)
mutable_function_init == 0

\* mutable_function::operator()(int a): value += a
mutable_function_call(value, a) == value + a

\* binary_class::operator()(x, y): x + y
binary_class_call(x, y) == x + y

\* The callable an indirect adaptor invokes: the one its pointer points to,
\* *ptr; the adaptor stores the pointer and never copies the pointee.
indirect_deref_copy(ptr) == "copy"
indirect_deref(ptr) == ptr

\* The arguments the adaptor passes on to (*ptr)(xs...).
indirect_forward_first(args) == [i \in 1..Len(args) |-> args[1]]
indirect_forward(args) == args

IInit ==
    /\ heap = [o \in Callables |-> mutable_function_init]
    /\ hist = [o \in Callables |-> <<>>]
    /\ iad = "none" /\ icall = NoCall /\ iret = NoVal /\ ncalls = 0

\* indirect(ptr): an adaptor holding ptr is created. A unique_ptr is created
\* with a new callable and moved into the adaptor.
IndirectMake(o) ==
    /\ iad = "none" /\ ncalls < MaxCalls
    /\ iad' = o
    /\ IF PointerKind(o) = "unique_ptr"
       THEN /\ heap' = [heap EXCEPT ![o] = mutable_function_init]
            /\ hist' = [hist EXCEPT ![o] = <<>>]
       ELSE UNCHANGED <<heap, hist>>
    /\ UNCHANGED <<icall, iret, ncalls>>
    /\ UNCHANGED byvars /\ UNCHANGED cvars

\* indirect(ptr)(a) on a pointer to a mutable_function.
IndirectCallMutable(a) ==
    /\ iad \in Mutables /\ ncalls < MaxCalls
    /\ LET callee == indirect_deref(iad)
           args == indirect_forward(<<a>>)
       IN  /\ heap' = [heap EXCEPT ![callee] = mutable_function_call(@, args[1])]
           /\ hist' = [hist EXCEPT ![iad] = Append(@, a)]
           /\ icall' = [target |-> iad, args |-> <<a>>]
           /\ iret' = VoidVal
    /\ ncalls' = ncalls + 1
    /\ UNCHANGED iad
    /\ UNCHANGED byvars /\ UNCHANGED cvars

\* indirect(ptr)(x, y) on a pointer to a binary_class.
IndirectCallBinary(x, y) ==
    /\ iad \in Binaries /\ ncalls < MaxCalls
    /\ LET args == indirect_forward(<<x, y>>)
       IN  /\ iret' = IntVal(binary_class_call(args[1], args[2]))
           /\ icall' = [target |-> iad, args |-> <<x, y>>]
    /\ ncalls' = ncalls + 1
    /\ UNCHANGED <<heap, hist, iad>>
    /\ UNCHANGED byvars /\ UNCHANGED cvars

\* The adaptor is destroyed at the end of its full expression; the pointee
\* of a raw pointer or of a shared_ptr lives on.
IndirectDrop ==
    /\ iad # "none"
    /\ iad' = "none"
    /\ UNCHANGED <<heap, hist, icall, iret, ncalls>>
    /\ UNCHANGED byvars /\ UNCHANGED cvars

IndirectNext ==
    \/ \E o \in Pointees : IndirectMake(o)
    \/ \E a \in IndirectArgs : IndirectCallMutable(a)
    \/ \E x \in IndirectArgs, y \in IndirectArgs : IndirectCallBinary(x, y)
    \/ IndirectDrop

Init == ByInit /\ CIdle /\ IInit

Next ==
    \/ ByCallAny
    \/ ByProject
    \/ ByInvoke
    \/ ByVoidCallAny
    \/ ByVoidProject
    \/ ByVoidReturn
    \/ ByReset
    \/ ConstructCallAny
    \/ ConstructCallILAny
    \/ ConstructTemplateCallAny
    \/ ConstructLiteralReturn
    \/ ConstructPlacementNew
    \/ ConstructReturn
    \/ ConstructReset

\* The calls of by and construct.
Spec == Init /\ [][Next]_vars

\* The calls made through indirect.
IndirectInit == ByIdle /\ bcfg = FALSE /\ CIdle /\ IInit
SpecIndirect == IndirectInit /\ [][IndirectNext]_vars



\* ------------------------------------------------------------------ claims

Final == {"done", "rejected", "ill_formed"}

\* The values f(p(xs)...) is called on.
Projected(p, xs) == [i \in 1..Len(xs) |-> PApply(p, xs[i])]

\* The positions of the log holding an invocation of kind ev.
Events(ev) == {k \in 1..Len(blog) : blog[k].ev = ev}

\* The invocations of p on argument i.
PEventsOf(i) == {k \in Events("p") : blog[k].i = i /\ blog[k].x = bxs[i]}

\* C1: for every T and every xs... from which T is constructible,
\* construct<T>()(xs...) returns a value equal to T(xs...), in the literal
\* specialisation, in the non-literal specialisation and through the
\* std::initializer_list overloads.
C1_ConstructEqualsDirect ==
    (cvariant = "class" /\ cpc \in Final /\ Constructible(cT, cxs))
        => (cpc = "done" /\ cret = Ctor(cT, cxs))

\* C2: by(p, f)(xs...) returns exactly f(p(xs)...): p is applied to each
\* argument separately, f is invoked exactly once, on the projected values in
\* the positional order of the arguments, and its result is returned unchanged.
C2_ByCallThrough ==
    (bpc = "done" /\ bf # "void") =>
        /\ bret = FApply(bf, Projected(bp, bxs))
        /\ Len(blog) = Len(bxs) + 1
        /\ \A i \in 1..Len(bxs) : Cardinality(PEventsOf(i)) = 1
        /\ Cardinality(Events("f")) = 1
        /\ \A k \in Events("f") :
              blog[k].x = TupleVal(Projected(bp, bxs)) /\ blog[k].r = bret

\* C2 witness: the documentation's example by(&foo::x, _ + _)(foo(1), foo(2)) == 3.
C2_Witness ==
    /\ bpc = "done" /\ bp = "member_x" /\ bf = "plus"
    /\ bxs = <<FooVal(1), FooVal(2)>>
    /\ bret = IntVal(3)

\* C4: in by(p, f)(x1, ..., xn) and in by(p)(x1, ..., xn) the invocations of p
\* happen in left-to-right argument order, and in the by(p, f) form every
\* projection completes before f is invoked.
C4_LeftToRight ==
    \A k \in 1..Len(blog) :
        /\ blog[k].ev = "p" => blog[k].i = k
        /\ blog[k].ev = "f" => (k = Len(bxs) + 1 /\ \A j \in 1..(k - 1) : blog[j].ev = "p")

\* C4 witness: a call of by(p, f) on two different arguments has projected
\* both and invoked f.
C4_Witness ==
    /\ bpc = "done" /\ bf = "pack" /\ Len(bxs) = 2 /\ bxs[1] # bxs[2]
    /\ Len(blog) = 3 /\ blog[1].x = bxs[1] /\ blog[2].x = bxs[2] /\ blog[3].ev = "f"

\* C5: a call the wrapped callable cannot serve is rejected by overload
\* resolution (the call operator does not participate), and nothing of the
\* body runs: construct when T is not constructible from xs..., by when p is
\* not callable on some xi or f is not callable on the projected values.
C5_RejectedAtOverloadResolution ==
    /\ (/\ bpc # "idle" /\ bf # "void"
        /\ \/ \E i \in 1..Len(bxs) : ~PCallable(bp, bxs[i])
           \/ ~FCallable(bf, Projected(bp, bxs)))
            => (bpc = "rejected" /\ blog = <<>> /\ bret = NoVal)
    /\ (cpc # "idle" /\ ~Constructible(cT, cxs))
            => (cpc = "rejected" /\ cbuf = NoObj /\ cret = NoObj)

\* C5 witness: by(identity, _ + _)(foo, x) is rejected: the projection is
\* callable on each argument, _ + _ is not callable on the projected values.
C5_Witness ==
    /\ bpc = "rejected" /\ bp = "identity" /\ bf = "plus"
    /\ Len(bxs) = 2 /\ bxs[1].t = "foo"

\* C6: by(p)(x1, ..., xn) calls p exactly once on each xi (n calls, none
\* when n = 0), discards the results and returns no meaningful value.
C6_ByVoidOncePerArgument ==
    (bpc = "done" /\ bf = "void") =>
        /\ Len(blog) = Len(bxs)
        /\ Events("f") = {}
        /\ \A i \in 1..Len(bxs) : Cardinality(PEventsOf(i)) = 1
        /\ \A i \in 1..Len(bxs) : bvals[i] = IF bcfg THEN VoidVal ELSE IntVal(0)
        /\ bret = VoidVal

\* C6 witness: by(incr)(1, 2) has returned, in the build with ordered
\* brace initialisation.
C6_Witness ==
    /\ bpc = "done" /\ bf = "void" /\ ~bcfg /\ bp = "incr"
    /\ bxs = <<IntVal(1), IntVal(2)>>
    /\ Len(blog) = 2 /\ blog[1].r = IntVal(2) /\ blog[2].r = IntVal(3)

\* C8: MoveConstructible is all construct<T>() requires of T: for every
\* MoveConstructible T constructible from xs..., also a move-only one,
\* construct<T>()(xs...) is usable and yields the constructed object.
C8_MoveConstructibleSuffices ==
    (cvariant = "class" /\ cpc # "idle" /\ MoveConstructible(cT) /\ Constructible(cT, cxs))
        => /\ cpc \notin {"rejected", "ill_formed"}
           /\ cpc = "done" => cret = Ctor(cT, cxs)

\* C9: construct<Template>()(xs...) is Template<Ts...>(xs...) with one
\* parameter per argument: the decayed argument type for construct, the
\* deduced type for construct_forward, the deduced type without an rvalue
\* reference for construct_basic.
C9_TemplateDeduction ==
    (cvariant \in TemplateVariants /\ cpc # "idle") =>
        /\ cT.name = "tuple"
        /\ Len(cT.params) = Len(cxs)
        /\ \A i \in 1..Len(cxs) :
              LET x == cxs[i]
                  deduced == IF x.cat = "lvalue" THEN "lref" ELSE "none"
              IN  cT.params[i] =
                      IF cvariant = "construct"
                      THEN [base |-> x.base, const |-> FALSE, ref |-> "none"]
                      ELSE [base |-> x.base, const |-> x.const, ref |-> deduced]
        /\ (cpc \in Final /\ Constructible(cT, cxs))
              => (cpc = "done" /\ cret = Ctor(cT, cxs))


RECURSIVE Sum(_)
Sum(s) == IF s = <<>> THEN 0 ELSE Head(s) + Sum(Tail(s))

\* C3: indirect(ptr)(xs...) returns what (*ptr)(xs...) returns, for a raw
\* pointer, a unique_ptr and a shared_ptr: the sum of the two arguments for a
\* binary_class (indirect(&f)(1, 2) == 3), nothing for a mutable_function.
C3_IndirectCallThrough ==
    icall # NoCall =>
        /\ icall.target \in Binaries =>
              iret = IntVal(icall.args[1] + icall.args[2])
        /\ icall.target \in Mutables => iret = VoidVal

\* C3 witness: indirect(&f)(1, 2) has returned 3.
C3_Witness ==
    /\ icall = [target |-> "f", args |-> <<1, 2>>]
    /\ iret = IntVal(3)

\* C7: indirect does not copy the pointee: after any sequence of calls made
\* through separately created adaptors on the same raw pointer or shared_ptr
\* to a mutable_function, its value is the sum of the arguments of all the
\* calls.
C7_IndirectSharesPointee ==
    \A o \in Mutables : heap[o] = Sum(hist[o])

\* C7 witness: the test's indirect(&mf)(15); indirect(&mf)(2) has left 17 in
\* mf.value, the two adaptors having been created one after the other.
C7_Witness ==
    /\ hist["mf"] = <<15, 2>>
    /\ heap["mf"] = 17
    /\ iad = "none"

====
